---------------------------- MODULE Spec2Model ----------------------------
(***************************************************************************)
(* Model of the generation dispatch and admission core of My-own-llm:      *)
(*   - RateLimitService  (backend/app/services/rate_limit_service.py)      *)
(*   - LLMService        (backend/app/services/llm_service.py)             *)
(*   - the /api/v1/generate handlers of backend/app/main.py and            *)
(*     backend/app/main-deploy.py                                          *)
(* Time is int(time.time()) in seconds.  Money is kept in integers: the    *)
(* rate price_per_1k_tokens is in thousandths of a unit, a cost is in      *)
(* millionths of a unit, so (tokens / 1000) * rate is tokens * rate.       *)
(***************************************************************************)
EXTENDS Integers, Sequences, FiniteSets

\* ------------------------------------------------------------- bounds
MaxTime == 6
MaxLimit == 2
MaxCalls == 4
MaxClock == 3
MaxChecks == 4
MaxTokens == 1

\* ----------------------------------------------------- values of the model
Users == {1, 2}
Windows == {2, 3}
\* settings.rate_limit_requests is any int: negative, zero, positive
Limits == -1..MaxLimit
NoEntry == [window_start |-> -1, count |-> -1]
\* the connections being served at once
Reqs == {1, 2}
Tokens == 1..MaxTokens
\* settings.price_per_1k_tokens, in thousandths of a unit
Rates == {0, 2}
\* values of LLM_PROVIDER
ProviderNames ==
    {"llamacpp", "llama.cpp", "huggingface", "OpenAI", "anthropic", "gpt4all"}
\* the providers the service as a whole is run with: a local adapter, which
\* counts tokens itself, and a hosted one, which reports them
ServedProviders == {"llamacpp", "OpenAI"}
\* the optional imports of llm_service.py
Libraries == {"llama_cpp", "transformers", "openai", "anthropic"}
\* the Authorization header of a request: keys "k1a", "k1b" belong to user 1,
\* "k2" to user 2, "k3" to the inactive user 3; "zz" is no key; "" is no header
ApiKeys == {"k1a", "k1b", "k2", "k3", "zz", ""}
NoResp == [provider |-> "none"]

VARIABLES
    now,                   \* int(time.time())
    rate_limit_requests,   \* settings.rate_limit_requests
    rate_limit_window,     \* settings.rate_limit_window
    counters,              \* RateLimitService._counters
    log,                   \* the calls of check_rate_limit made so far, in order
    mode,                  \* the application served: main.py or main-deploy.py
    llm_provider,          \* settings.llm_provider
    price_per_1k_tokens,   \* settings.price_per_1k_tokens
    installed,             \* the optional libraries whose import succeeded
    model_file,            \* os.path.exists(settings.llm_model_path)
    api_key,               \* the configured provider's API key is set
    llm,                   \* LLMService: what _initialize_models has set up
    init_error,            \* _initialize_models logged "Failed to initialize"
    init_warning,          \* _initialize_models logged "Unknown LLM provider"
    last,                  \* the result of the last llm_service.generate_text call
    models,                \* the last answer of llm_service.get_available_models
    req,                   \* per connection, the generate request being served
    done,                  \* the last response sent to a caller
    admissions             \* per user, the requests admitted while the clock has
                           \* been in its present aligned window

\* what is fixed once the modules are imported
config == <<mode, llm_provider, price_per_1k_tokens, installed, api_key,
            rate_limit_requests, rate_limit_window, init_warning>>
svc == <<mode, llm_provider, price_per_1k_tokens, installed, model_file, api_key,
         llm, init_error, init_warning, last, models, req, done, admissions>>
vars == <<now, rate_limit_requests, rate_limit_window, counters, log, mode,
          llm_provider, price_per_1k_tokens, installed, model_file, api_key,
          llm, init_error, init_warning, last, models, req, done, admissions>>

\* ------------------------------------------------- rate_limit_service.py

\* the key main.py builds for a user: f"user:{current_user.id}"
Identifier(u) == <<"user", u>>

Identifiers == {Identifier(u) : u \in Users}

\* _get_window_start with a fault: the window starts at the present second
GetWindowStartSliding(current_time, window) == current_time

\* (current_time // window) * window
GetWindowStart(current_time, window) == (current_time \div window) * window

\* datetime.fromtimestamp(ts).isoformat(): the instant split into its fields
\* (minutes and seconds are enough for the instants of the model)
IsoFormat(ts) == [minute |-> ts \div 60, second |-> ts % 60]

\* datetime.fromisoformat(s).timestamp(): what a caller reads back
FromIso(s) == s.minute * 60 + s.second

\* lines 42-45 with a fault: the count of the previous window is carried over
StaleCarriesCount(entry, window_start) ==
    IF entry = NoEntry
    THEN [window_start |-> window_start, count |-> 0]
    ELSE [window_start |-> window_start, count |-> entry.count]

\* lines 42-45: a missing entry, or one of another window, is replaced
CurrentEntry(entry, window_start) ==
    IF entry = NoEntry \/ entry.window_start # window_start
    THEN [window_start |-> window_start, count |-> 0]
    ELSE entry

\* line 47 with a fault: > for >=
OverLimitOffByOne(count, requests) == count > requests

\* line 47: entry['count'] >= requests
OverLimit(count, requests) == count >= requests

\* line 58 with a fault: the count is not raised
IncrementSkipped(count) == count

\* line 58 with a fault: the count is raised by 2
IncrementTwice(count) == count + 2

\* line 58: entry['count'] += 1
Increment(count) == count + 1

\* lines 48 and 60 with a fault: the window's start for its end
ResetTsWindowStart(window_start, window) == window_start

\* lines 48 and 60: reset_ts = window_start + window
ResetTs(window_start, window) == window_start + window

Max(a, b) == IF a >= b THEN a ELSE b

\* line 44 with a fault: the dictionary is rebuilt around the new entry
StoreAll(cs, identifier, entry) == [i \in DOMAIN cs |-> entry]

\* lines 44 and 58: self._counters[identifier] is assigned or updated in place
Store(cs, identifier, entry) == [cs EXCEPT ![identifier] = entry]

\* check_rate_limit(identifier, requests, window) at clock value t on the
\* counters cs: the pair it returns and the counters it leaves
CheckRateLimit(cs, t, identifier, requests, window) ==
    LET window_start == GetWindowStart(t, window)
        entry == CurrentEntry(cs[identifier], window_start)
        reset == IsoFormat(ResetTs(window_start, window))
    IN  IF OverLimit(entry.count, requests)
        THEN [allowed |-> FALSE,
              info |-> [limit |-> requests, remaining |-> 0,
                        reset |-> reset, window |-> window],
              counters |-> Store(cs, identifier, entry)]
        ELSE LET count == Increment(entry.count)
             IN  [allowed |-> TRUE,
                  info |-> [limit |-> requests,
                            remaining |-> Max(0, requests - count),
                            reset |-> reset, window |-> window],
                  counters |-> Store(cs, identifier,
                                    [window_start |-> window_start,
                                     count |-> count])]

\* ------------------------------------------------------- llm_service.py

\* settings.llm_provider.lower()
Lower(name) == IF name = "OpenAI" THEN "openai" ELSE name

\* LLMService.__init__, lines 69-72: nothing loaded yet.  constructed counts
\* the backend objects built so far: Llama(...), pipeline(...), Anthropic(...)
EmptyLLM == [llamacpp_model |-> FALSE, pipelines |-> FALSE,
             openai_api_key |-> FALSE, anthropic_client |-> FALSE,
             constructed |-> 0]

Raised(l, e) == [raised |-> TRUE, llm |-> l, error |-> e]
Returned(l) == [raised |-> FALSE, llm |-> l, error |-> "none"]

\* _load_huggingface_model: needs transformers and torch
LoadHuggingfaceModel(l, inst) ==
    IF "transformers" \notin inst
    THEN Raised(l, "transformers/torch not installed")
    ELSE Returned([l EXCEPT !.pipelines = TRUE, !.constructed = @ + 1])

\* _load_llamacpp_model with a fault: the model path is not checked
LoadLlamacppModelUnchecked(l, inst, file) ==
    IF "llama_cpp" \notin inst
    THEN Raised(l, "llama-cpp-python not installed")
    ELSE Returned([l EXCEPT !.llamacpp_model = TRUE, !.constructed = @ + 1])

\* _load_llamacpp_model: needs llama_cpp and the GGUF file
LoadLlamacppModel(l, inst, file) ==
    IF "llama_cpp" \notin inst
    THEN Raised(l, "llama-cpp-python not installed")
    ELSE IF ~file
         THEN Raised(l, "llama.cpp model file not found")
         ELSE Returned([l EXCEPT !.llamacpp_model = TRUE, !.constructed = @ + 1])

\* _initialize_openai: needs the package and the key
InitializeOpenai(l, inst, key) ==
    IF "openai" \notin inst
    THEN Raised(l, "openai package not installed")
    ELSE IF ~key
         THEN Raised(l, "OpenAI API key not configured")
         ELSE Returned([l EXCEPT !.openai_api_key = TRUE])

\* _initialize_anthropic: needs the package and the key
InitializeAnthropic(l, inst, key) ==
    IF "anthropic" \notin inst
    THEN Raised(l, "anthropic package not installed")
    ELSE IF ~key
         THEN Raised(l, "Anthropic API key not configured")
         ELSE Returned([l EXCEPT !.anthropic_client = TRUE, !.constructed = @ + 1])

\* the names _initialize_models knows, lines 79-85
KnownProviders == {"huggingface", "openai", "anthropic",
                   "llamacpp", "llama.cpp", "llama-cpp"}

\* the branch of _initialize_models for a provider name
ResolveProvider(l, name, inst, file, key) ==
    LET provider == Lower(name)
    IN  IF provider = "huggingface" THEN LoadHuggingfaceModel(l, inst)
        ELSE IF provider = "openai" THEN InitializeOpenai(l, inst, key)
        ELSE IF provider = "anthropic" THEN InitializeAnthropic(l, inst, key)
        ELSE IF provider \in {"llamacpp", "llama.cpp", "llama-cpp"}
             THEN LoadLlamacppModel(l, inst, file)
             ELSE LoadLlamacppModel(l, inst, file)

\* line 88: logger.warning("Unknown LLM provider ..., defaulting to llama.cpp")
WarnsUnknown(name) == Lower(name) \notin KnownProviders

\* _initialize_models: any exception of the loader is caught and logged
InitializeModels(name, inst, file, key) ==
    LET r == ResolveProvider(EmptyLLM, name, inst, file, key)
    IN  [llm |-> r.llm, error |-> r.raised, warning |-> WarnsUnknown(name)]

\* the library a provider name needs, and whether its file or key is there
LibraryOf(name) ==
    LET provider == Lower(name)
    IN  IF provider = "huggingface" THEN "transformers"
        ELSE IF provider = "openai" THEN "openai"
        ELSE IF provider = "anthropic" THEN "anthropic"
        ELSE "llama_cpp"

\* _calculate_cost with a fault: the billing formula at the configured rate,
\* and a price fixed in the code
CalculateCostAtRate(total_tokens) == total_tokens * price_per_1k_tokens
CalculateCostFixedPrice(total_tokens) == total_tokens * 2

\* _calculate_cost: "Free local setup => cost 0"
CalculateCost(total_tokens) == 0

\* GenerationRequest, lines 41-49, without the prompt.  temperature and top_p
\* are in tenths.  model is a string, "" standing for None and for the empty
\* string (both falsy).  stop_sequences is Optional[List[str]]: {} is None,
\* {s} is the list s.
Requests ==
    [max_tokens : {1, 10}, temperature : {7}, top_p : {9},
     model : {"", "default", "gpt-4"},
     stop_sequences : {{}, {<<>>}, {<<"END">>}}]

\* Python's `x or d` on a string
OrDefault(x, d) == IF x = "" THEN d ELSE x

\* Python's `x or None` on an optional list: an empty list becomes None
OrNone(x) == IF x = {<<>>} THEN {} ELSE x

Response(provider, model_used, input_tokens, output_tokens, total_tokens) ==
    [provider |-> provider, model_used |-> model_used,
     input_tokens |-> input_tokens, output_tokens |-> output_tokens,
     total_tokens |-> total_tokens, cost |-> 0]

\* the keyword arguments of a backend call that was not made
NotSent == [called |-> FALSE]

\* an adapter raises before it reaches the backend
Failure(l, e) ==
    [raised |-> TRUE, llm |-> l, resp |-> NoResp, error |-> e,
     invoked |-> 0, sent |-> NotSent]

\* BackendError with a fault: the completion is tried a second time
BackendErrorRetried(l, b, sent) ==
    [raised |-> TRUE, llm |-> l, resp |-> NoResp, error |-> b.error,
     invoked |-> 2, sent |-> sent]

\* the backend completion raises: the exception leaves the adapter
BackendError(l, b, sent) ==
    [raised |-> TRUE, llm |-> l, resp |-> NoResp, error |-> b.error,
     invoked |-> 1, sent |-> sent]

\* the backend completion returns and the adapter builds its response
Success(l, resp, sent) ==
    [raised |-> FALSE, llm |-> l, resp |-> resp, error |-> "none",
     invoked |-> 1, sent |-> sent]

\* _generate_openai, line 244: response.usage.total_tokens
OpenaiTotalTokens(b) == b.total_tokens

\* _generate_huggingface; lines 179-186: pipe(prompt, max_new_tokens=...,
\* temperature=..., top_p=...), no stop argument
GenerateHuggingface(l, inst, request, b) ==
    LET sent == [max_tokens |-> request.max_tokens,
                 temperature |-> request.temperature, top_p |-> request.top_p]
    IN  IF "transformers" \notin inst
        THEN Failure(l, "transformers/torch not installed")
        ELSE IF ~l.pipelines THEN Failure(l, "Hugging Face model not loaded")
        ELSE IF ~b.ok THEN BackendError(l, b, sent)
        ELSE Success(l, Response("huggingface", "llm_model", b.input_tokens,
                                 b.output_tokens,
                                 b.input_tokens + b.output_tokens), sent)

\* lines 202-203 with a fault: the model is loaded on every call
CachedOrLoadedAlways(l, inst, file) == LoadLlamacppModel(l, inst, file)

\* lines 202-203: the model is loaded only when none is cached
CachedOrLoaded(l, inst, file) ==
    IF l.llamacpp_model THEN Returned(l) ELSE LoadLlamacppModel(l, inst, file)

\* _generate_llamacpp; lines 208-214: llm(prompt, max_tokens=...,
\* temperature=..., top_p=..., stop=request.stop_sequences or None)
GenerateLlamacpp(l, inst, file, request, b) ==
    LET ld == CachedOrLoaded(l, inst, file)
        sent == [max_tokens |-> request.max_tokens,
                 temperature |-> request.temperature, top_p |-> request.top_p,
                 stop |-> OrNone(request.stop_sequences)]
    IN  IF ld.raised THEN Failure(l, ld.error)
        ELSE IF ~b.ok THEN BackendError(ld.llm, b, sent)
        ELSE Success(ld.llm, Response("llamacpp", "basename(llm_model_path)",
                                      b.input_tokens, b.output_tokens,
                                      b.input_tokens + b.output_tokens), sent)

\* _generate_openai: the key is whatever _initialize_openai left; lines
\* 232-239: model=request.model or "gpt-3.5-turbo", stop=request.stop_sequences
GenerateOpenai(l, inst, request, b) ==
    LET model == OrDefault(request.model, "gpt-3.5-turbo")
        sent == [model |-> model, max_tokens |-> request.max_tokens,
                 temperature |-> request.temperature, top_p |-> request.top_p,
                 stop |-> request.stop_sequences]
    IN  IF "openai" \notin inst THEN Failure(l, "openai package not installed")
        ELSE IF ~b.ok THEN BackendError(l, b, sent)
        ELSE Success(l, Response("openai", model, b.input_tokens,
                                 b.output_tokens, OpenaiTotalTokens(b)), sent)

\* _generate_anthropic: self.anthropic_client exists only after a successful
\* _initialize_anthropic; lines 253-259: no stop argument
GenerateAnthropic(l, inst, request, b) ==
    LET model == OrDefault(request.model, "claude-3-sonnet-20240229")
        sent == [model |-> model, max_tokens |-> request.max_tokens,
                 temperature |-> request.temperature, top_p |-> request.top_p]
    IN  IF "anthropic" \notin inst
        THEN Failure(l, "anthropic package not installed")
        ELSE IF ~l.anthropic_client THEN Failure(l, "no attribute anthropic_client")
        ELSE IF ~b.ok THEN BackendError(l, b, sent)
        ELSE Success(l, Response("anthropic", model, b.input_tokens,
                                 b.output_tokens,
                                 b.input_tokens + b.output_tokens), sent)

\* lines 157-164 with a fault: only the llama.cpp names reach the llama.cpp
\* adapter, every other name falls through to the first branch
DispatchUnknownToFirst(name) ==
    LET provider == Lower(name)
    IN  IF provider = "openai" THEN "openai"
        ELSE IF provider = "anthropic" THEN "anthropic"
        ELSE IF provider \in {"llamacpp", "llama.cpp", "llama-cpp"} THEN "llamacpp"
        ELSE "huggingface"

\* generate_text, lines 157-164: the adapter a provider name is dispatched to
Dispatch(name) ==
    LET provider == Lower(name)
    IN  IF provider = "huggingface" THEN "huggingface"
        ELSE IF provider = "openai" THEN "openai"
        ELSE IF provider = "anthropic" THEN "anthropic"
        ELSE "llamacpp"

\* no call of generate_text yet.  A call: the request, whether it raised and
\* with what error, the GenerationResponse it returned, whether the model file
\* existed then, the adapter it went to, whether that found a model cached,
\* how often the backend completion was invoked, with what arguments, and
\* whether the backend failed
NoCall == [called |-> FALSE, raised |-> FALSE, resp |-> NoResp, file |-> FALSE,
           request |-> [model |-> ""], adapter |-> "none", cached |-> FALSE,
           invoked |-> 0, sent |-> NotSent, backend_ok |-> TRUE]

\* LLMService.generate_text: dispatch on the provider name, then the cost
GenerateText(l, name, inst, file, request, b) ==
    LET adapter == Dispatch(name)
        r == IF adapter = "huggingface" THEN GenerateHuggingface(l, inst, request, b)
             ELSE IF adapter = "openai" THEN GenerateOpenai(l, inst, request, b)
             ELSE IF adapter = "anthropic" THEN GenerateAnthropic(l, inst, request, b)
             ELSE GenerateLlamacpp(l, inst, file, request, b)
    IN  IF r.raised THEN r
        ELSE [r EXCEPT !.resp.cost = CalculateCost(r.resp.total_tokens)]

\* get_available_models, lines 274-299: the descriptors listed for a provider
\* name, each by its provider and id (settings.llm_model is set by default)
GetAvailableModels(name) ==
    LET provider == Lower(name)
    IN  (IF provider \in {"llamacpp", "llama.cpp", "llama-cpp"}
         THEN <<[provider |-> "llamacpp", id |-> "llm_model_path"]>> ELSE <<>>)
        \o (IF provider = "huggingface"
            THEN <<[provider |-> "huggingface", id |-> "llm_model"]>> ELSE <<>>)
        \o (IF provider = "openai"
            THEN <<[provider |-> "openai", id |-> "gpt-3.5-turbo"]>> ELSE <<>>)
        \o (IF provider = "anthropic"
            THEN <<[provider |-> "anthropic", id |-> "claude-3-sonnet-20240229"]>>
            ELSE <<>>)

\* -------------------------------------------------- main.py, main-deploy.py

\* a connection with no request in progress; of a request, the key of its
\* Authorization header (which the handler never sees: it is given the user)
\* and body.model
NewRequest == [pc |-> "new", key |-> "", user |-> 0, model |-> "",
               resp |-> NoResp, rows |-> <<>>]

\* no response sent yet.  A response: its status and detail, what the handler
\* logged, whether generate_text had returned, what became of the usage write,
\* the request's body.model and the body of a 200, the Usage rows the call
\* committed, the decision of a 429
NoInfo == [limit |-> -1]
NoResponse == [status |-> "none", detail |-> "none", logged |-> "none",
               generated |-> FALSE, sink |-> "none", model |-> "",
               resp |-> NoResp, rows |-> <<>>, info |-> NoInfo]

\* enforce_rate_limit inside the handler's try: the 429 is caught by
\* `except Exception` and answered 500
RejectionCaught(info) ==
    [NoResponse EXCEPT !.status = "err500", !.detail = "Generation failed"]

\* enforce_rate_limit, lines 72-86, called before the handler's try: the
\* HTTPException 429 with the decision in its detail and headers
Rejection(info) ==
    [NoResponse EXCEPT !.status = "r429", !.detail = "Rate limit exceeded",
                       !.info = info]

\* lines 138-140 with a fault: the exception's text as the detail, as the
\* register handler does (line 89)
ErrorResponseLeaky(e) ==
    [NoResponse EXCEPT !.status = "err500", !.detail = e, !.logged = e]

\* main.py, lines 138-140: logger.error(f"Generation failed: {e}") and
\* HTTPException(500, "Generation failed")
ErrorResponse(e) ==
    [NoResponse EXCEPT !.status = "err500", !.detail = "Generation failed",
                       !.logged = e]

\* main-deploy.py has no try: the exception leaves the handler and the
\* server answers 500 "Internal Server Error"
Unhandled(e) ==
    [NoResponse EXCEPT !.status = "err500", !.detail = "Internal Server Error",
                       !.logged = e]

\* the bodies sent to the service as a whole: {prompt: "Hi", max_tokens: 10}
\* with the defaults of GenerateRequestBody, model omitted or given
StubBodies ==
    {r \in Requests : /\ r.max_tokens = 10 /\ r.temperature = 7
                      /\ r.stop_sequences = {} /\ r.model \in {"", "gpt-4"}}

\* main.py, lines 109-116: the GenerationRequest built from the body
BuildRequest(body) == [body EXCEPT !.model = OrDefault(body.model, "default")]

\* get_user_by_api_key with a fault: a key that is not found gets the first
\* user
UserOfKeyLax(key) ==
    IF key \in {"k1a", "k1b"} THEN 1
    ELSE IF key = "k2" THEN 2
    ELSE IF key = "k3" THEN 3
    ELSE 1

\* auth_service.get_user_by_api_key: the user of a key, 0 for none
UserOfKey(key) ==
    IF key \in {"k1a", "k1b"} THEN 1
    ELSE IF key = "k2" THEN 2
    ELSE IF key = "k3" THEN 3
    ELSE 0

\* user.is_active
IsActive(u) == u \in Users

\* main-deploy.py, lines 108 and 116: the words of the mock response to a
\* prompt of n words (at most 50 characters long)
MockPrefixWords == 8
MockWords(n) == MockPrefixWords + Max(1, n)

\* the backend's part of one completion: whether the call returns (ok), the
\* token counts of its tokenizer or of its usage metadata, and for a hosted
\* API the total it reports (the sum of the two, or one more); when it raises,
\* the exception's message (and no counts: they are left at their least values)
BackendErrors == {"timeout", "bad response"}
Backends ==
    {b \in [ok : BOOLEAN, input_tokens : Tokens, output_tokens : Tokens,
             total_tokens : 0..(2 * MaxTokens + 1),
             error : BackendErrors \cup {"none"}] :
        /\ b.ok <=> b.error = "none"
        /\ b.total_tokens - (b.input_tokens + b.output_tokens) \in {0, 1}
        /\ ~b.ok => /\ b.input_tokens = 1 /\ b.output_tokens = 1
                    /\ b.total_tokens = 2}

\* no GET /api/v1/models answered yet
NotListed == [listed |-> FALSE, list |-> <<>>]

\* the backend the service as a whole is run against: a stub that fails, or
\* returns one input token and one output token ("Hi" -> "Hello")
StubBackends ==
    {b \in Backends : /\ b.input_tokens = 1 /\ b.output_tokens = 1
                      /\ b.total_tokens = 2}

\* ------------------------------------------- the admission controller alone

InitRL ==
    /\ now \in 0..1
    /\ rate_limit_requests \in Limits
    /\ rate_limit_window \in Windows
    /\ counters = [i \in Identifiers |-> NoEntry]
    /\ log = <<>>
    /\ mode = "main"
    /\ llm_provider = "llamacpp"
    /\ price_per_1k_tokens = 0
    /\ installed = Libraries
    /\ model_file = TRUE
    /\ api_key = FALSE
    /\ llm = InitializeModels(llm_provider, installed, model_file, api_key).llm
    /\ init_error = FALSE
    /\ init_warning = FALSE
    /\ last = NoCall
    /\ models = NotListed
    /\ req = [r \in Reqs |-> NewRequest]
    /\ done = NoResponse
    /\ admissions = [u \in Users |-> 0]

\* one call check_rate_limit(identifier) with the configured defaults
Check(u) ==
    /\ Len(log) < MaxCalls
    /\ LET res == CheckRateLimit(counters, now, Identifier(u),
                                 rate_limit_requests, rate_limit_window)
       IN  /\ counters' = res.counters
           /\ log' = Append(log, [id |-> Identifier(u), t |-> now,
                                  prev |-> counters[Identifier(u)],
                                  entry |-> res.counters[Identifier(u)],
                                  allowed |-> res.allowed, info |-> res.info])
    /\ UNCHANGED <<now, rate_limit_requests, rate_limit_window, svc>>

\* the clock advances
Tick ==
    /\ now < MaxTime
    /\ now' = now + 1
    /\ UNCHANGED <<rate_limit_requests, rate_limit_window, counters, log, svc>>

NextRL ==
    \/ \E u \in Users : Check(u)
    \/ Tick

SpecRL == InitRL /\ [][NextRL]_vars

\* ---------------------- the rate limiter called with an explicit window ----

\* a fresh RateLimitService with a positive default limit, whose default
\* window is the largest one in use
InitParams ==
    /\ now = 0
    /\ rate_limit_requests \in 1..MaxLimit
    /\ rate_limit_window \in {w \in Windows : \A v \in Windows : v <= w}
    /\ counters = [i \in Identifiers |-> NoEntry]
    /\ log = <<>>
    /\ mode = "main"
    /\ llm_provider = "llamacpp"
    /\ price_per_1k_tokens = 0
    /\ installed = Libraries
    /\ model_file = TRUE
    /\ api_key = FALSE
    /\ llm = InitializeModels(llm_provider, installed, model_file, api_key).llm
    /\ init_error = FALSE
    /\ init_warning = FALSE
    /\ last = NoCall
    /\ models = NotListed
    /\ req = [r \in Reqs |-> NewRequest]
    /\ done = NoResponse
    /\ admissions = [u \in Users |-> 0]

\* one call check_rate_limit(identifier, window=window): requests is None and
\* becomes the default, the window is the caller's
CheckWindow(u, window) ==
    /\ Len(log) < MaxChecks
    /\ LET res == CheckRateLimit(counters, now, Identifier(u),
                                 rate_limit_requests, window)
       IN  /\ counters' = res.counters
           /\ log' = Append(log, [id |-> Identifier(u), t |-> now,
                                  prev |-> counters[Identifier(u)],
                                  entry |-> res.counters[Identifier(u)],
                                  allowed |-> res.allowed, info |-> res.info])
    /\ UNCHANGED <<now, rate_limit_requests, rate_limit_window, svc>>

\* time.time() read later
ClockForward ==
    /\ now < MaxClock
    /\ now' = now + 1
    /\ UNCHANGED <<rate_limit_requests, rate_limit_window, counters, log, svc>>

\* time.time() is the wall clock: it can be set back between two calls
ClockBack ==
    /\ now > 0
    /\ now' = now - 1
    /\ UNCHANGED <<rate_limit_requests, rate_limit_window, counters, log, svc>>

\* the checks are those of one identity: the entries of different
\* identities are separate keys of self._counters
NextParams ==
    \/ \E window \in Windows : CheckWindow(1, window)
    \/ ClockForward
    \/ ClockBack

SpecParams == InitParams /\ [][NextParams]_vars


\* ---------------------------------------------------- the service as a whole

\* the state after the modules are imported: settings read, RateLimitService()
\* and (main.py only) LLMService() constructed.  The provider's prerequisites
\* are met here; SpecLLM covers the configurations where they are not.
Init ==
    /\ now = 0
    /\ rate_limit_requests \in Limits
    /\ rate_limit_window \in Windows
    /\ counters = [i \in Identifiers |-> NoEntry]
    /\ log = <<>>
    /\ mode \in {"main", "deploy"}
    /\ llm_provider \in IF mode = "main" THEN ServedProviders ELSE {"llamacpp"}
    /\ price_per_1k_tokens = 0
    /\ installed = IF mode = "main" THEN Libraries ELSE Libraries \ {"llama_cpp"}
    /\ model_file = (mode = "main")
    /\ api_key = (mode = "main")
    /\ llm = IF mode = "main"
             THEN InitializeModels(llm_provider, installed, model_file, api_key).llm
             ELSE EmptyLLM
    /\ init_error = FALSE
    /\ init_warning = FALSE
    /\ last = NoCall
    /\ models = NotListed
    /\ req = [r \in Reqs |-> NewRequest]
    /\ done = NoResponse
    /\ admissions = [u \in Users |-> 0]

\* LoopFree with a fault: the handlers run on worker threads (def instead
\* of async def), so one starts whatever the others are doing
LoopFreeThreaded == TRUE

\* generate_text and get_current_user are coroutines of one event loop, and
\* the handler never suspends between its first statement and its return
\* (check_rate_limit is a plain call; the adapters and the database are called
\* synchronously): a handler starts only when no other handler is inside its body
LoopFree == \A q \in Reqs : req[q].pc \in {"new", "authed"}

\* get_current_user: the dependency of the handler.  A connection that is
\* free takes the next request; 401 is answered at once.
Authenticate(r, key) ==
    /\ LoopFree
    /\ req[r].pc = "new"
    /\ LET user == UserOfKey(key)
       IN  IF key = "" \/ user = 0 \/ ~IsActive(user)
           THEN /\ done' = [NoResponse EXCEPT !.status = "r401"]
                /\ req' = req
           ELSE /\ req' = [req EXCEPT ![r].pc = "authed", ![r].key = key,
                                      ![r].user = user]
                /\ done' = done
    /\ UNCHANGED <<now, counters, log, models, config, model_file, llm, init_error,
                   last,
                   admissions>>

\* generate_text, first statement: rate_limit_service.enforce_rate_limit ->
\* check_rate_limit, lines 39-55: the window, the entry, the comparison; a
\* denial raises 429 with the decision's limit, remaining, reset and window
Enforce(r) ==
    /\ LoopFree
    /\ req[r].pc = "authed"
    /\ LET identifier == Identifier(req[r].user)
           window_start == GetWindowStart(now, rate_limit_window)
           entry == CurrentEntry(counters[identifier], window_start)
       IN  /\ counters' = [counters EXCEPT ![identifier] = entry]
           /\ IF OverLimit(entry.count, rate_limit_requests)
              THEN /\ req' = [req EXCEPT ![r] = NewRequest]
                   /\ done' = [Rejection(
                                  [limit |-> rate_limit_requests,
                                   remaining |-> 0,
                                   reset |-> IsoFormat(ResetTs(window_start,
                                                       rate_limit_window)),
                                   window |-> rate_limit_window])
                               EXCEPT !.rows = req[r].rows]
                   /\ admissions' = admissions
              ELSE /\ req' = [req EXCEPT ![r].pc = "checked", ![r].key = ""]
                   /\ done' = done
                   /\ admissions' = [admissions EXCEPT ![req[r].user] = @ + 1]
    /\ UNCHANGED <<now, log, models, config, model_file, llm, init_error, last>>

\* check_rate_limit, lines 57-68: entry['count'] += 1 and the return; main.py
\* drops the info of an allowed check
Admit(r) ==
    /\ req[r].pc = "checked"
    /\ counters' = [counters EXCEPT ![Identifier(req[r].user)].count = Increment(@)]
    /\ req' = [req EXCEPT ![r].pc = "admitted"]
    /\ UNCHANGED <<now, log, models, config, model_file, llm, init_error, last,
                   done, admissions>>

\* main.py, lines 109-117: the request is built and llm_service.generate_text
\* awaited; any exception ends the call with 500 "Generation failed"
GenerateMain(r, body, b) ==
    /\ mode = "main"
    /\ req[r].pc = "admitted"
    /\ LET g == GenerateText(llm, llm_provider, installed, model_file,
                             BuildRequest(body), b)
       IN  /\ llm' = g.llm
           /\ IF g.raised
              THEN /\ req' = [req EXCEPT ![r] = NewRequest]
                   /\ done' = [ErrorResponse(g.error) EXCEPT
                                  !.model = body.model, !.rows = req[r].rows]
              ELSE /\ req' = [req EXCEPT ![r].pc = "generated",
                                         ![r].model = body.model,
                                         ![r].resp = g.resp]
                   /\ done' = done
    /\ UNCHANGED <<now, counters, log, models, config, model_file, init_error,
                   last, admissions>>

\* main-deploy.py, lines 108-121: the mock response and its usage data
GenerateDeploy(r, words) ==
    /\ mode = "deploy"
    /\ req[r].pc = "admitted"
    /\ req' = [req EXCEPT ![r].pc = "generated",
                          ![r].resp = Response("deployment", "mock-deployment",
                                               words, MockWords(words),
                                               words + MockWords(words))]
    /\ UNCHANGED <<now, counters, log, models, config, model_file, llm, init_error,
                   last,
                   done, admissions>>

\* the Usage row track_usage builds from usage_data
UsageRow(user, resp) ==
    [user_id |-> user, total_tokens |-> resp.total_tokens,
     total_cost |-> resp.cost, status_code |-> 200]

\* track_usage with a fault: the row is added twice
TrackUsageTwice(rows, row) == Append(Append(rows, row), row)

\* analytics_service.track_usage: db.add(usage); db.commit()
TrackUsage(rows, row) == Append(rows, row)

\* analytics_service.track_usage(db, current_user.id, usage_data): the row is
\* committed, or the write raises.  In main.py the exception is caught by the
\* handler's except; in main-deploy.py it leaves the handler: 500 either way.
Track(r, ok) ==
    /\ req[r].pc = "generated"
    /\ IF ok
       THEN /\ req' = [req EXCEPT ![r].pc = "tracked",
                          ![r].rows = TrackUsage(@, UsageRow(req[r].user, req[r].resp))]
            /\ done' = done
       ELSE /\ req' = [req EXCEPT ![r] = NewRequest]
            /\ done' = [(IF mode = "main" THEN ErrorResponse("storage error")
                                          ELSE Unhandled("storage error"))
                        EXCEPT !.generated = TRUE, !.sink = "failed",
                               !.model = req[r].model, !.rows = req[r].rows]
    /\ UNCHANGED <<now, counters, log, models, config, model_file, llm, init_error,
                   last,
                   admissions>>

\* current_user.update_usage(...); db.commit(); return the response
Commit(r, ok) ==
    /\ req[r].pc = "tracked"
    /\ req' = [req EXCEPT ![r] = NewRequest]
    /\ IF ok
       THEN done' = [NoResponse EXCEPT !.status = "ok200",
                                       !.generated = TRUE, !.sink = "written",
                                       !.model = req[r].model,
                                       !.resp = req[r].resp, !.rows = req[r].rows]
       ELSE done' = [(IF mode = "main" THEN ErrorResponse("storage error")
                                       ELSE Unhandled("storage error"))
                     EXCEPT !.generated = TRUE, !.sink = "failed",
                            !.model = req[r].model, !.rows = req[r].rows]
    /\ UNCHANGED <<now, counters, log, models, config, model_file, llm, init_error,
                   last,
                   admissions>>

\* the clock advances while the service runs
Advance ==
    /\ now < MaxClock
    /\ now' = now + 1
    /\ admissions' = IF now' \div rate_limit_window = now \div rate_limit_window
                     THEN admissions
                     ELSE [u \in Users |-> 0]
    /\ UNCHANGED <<counters, log, models, config, model_file, llm, init_error,
                   last, req, done>>

Next ==
    \/ \E r \in Reqs, key \in ApiKeys : Authenticate(r, key)
    \/ \E r \in Reqs : Enforce(r)
    \/ \E r \in Reqs : Admit(r)
    \/ \E r \in Reqs, body \in StubBodies, b \in StubBackends :
           GenerateMain(r, body, b)
    \/ \E r \in Reqs, words \in Tokens : GenerateDeploy(r, words)
    \/ \E r \in Reqs, ok \in BOOLEAN : Track(r, ok)
    \/ \E r \in Reqs, ok \in BOOLEAN : Commit(r, ok)
    \/ Advance

Spec == Init /\ [][Next]_vars

\* ------------------------------------------------------ the LLM service alone

\* LLMService() constructed under every configuration of provider, libraries,
\* model file, API key and price
InitLLM ==
    /\ now = 0
    /\ rate_limit_requests = MaxLimit
    /\ rate_limit_window \in {w \in Windows : \A v \in Windows : w <= v}
    /\ counters = [i \in Identifiers |-> NoEntry]
    /\ log = <<>>
    /\ mode = "main"
    /\ llm_provider \in ProviderNames
    /\ price_per_1k_tokens \in Rates
    /\ installed \in {Libraries, Libraries \ {LibraryOf(llm_provider)}}
    /\ model_file \in IF LibraryOf(llm_provider) = "llama_cpp"
                      THEN BOOLEAN ELSE {FALSE}
    /\ api_key \in IF Lower(llm_provider) \in {"openai", "anthropic"}
                   THEN BOOLEAN ELSE {FALSE}
    /\ llm = InitializeModels(llm_provider, installed, model_file, api_key).llm
    /\ init_error = InitializeModels(llm_provider, installed, model_file,
                                     api_key).error
    /\ init_warning = InitializeModels(llm_provider, installed, model_file,
                                       api_key).warning
    /\ last = NoCall
    /\ models = NotListed
    /\ req = [r \in Reqs |-> NewRequest]
    /\ done = NoResponse
    /\ admissions = [u \in Users |-> 0]

\* one call llm_service.generate_text(request)
Call(request, b) ==
    /\ LET g == GenerateText(llm, llm_provider, installed, model_file, request, b)
       IN  /\ llm' = g.llm
           /\ last' = [called |-> TRUE, raised |-> g.raised, resp |-> g.resp,
                       file |-> model_file, request |-> request,
                       adapter |-> Dispatch(llm_provider),
                       cached |-> llm.llamacpp_model, invoked |-> g.invoked,
                       sent |-> g.sent, backend_ok |-> b.ok]
    /\ UNCHANGED <<now, counters, log, models, config, model_file, init_error, req,
                   done, admissions>>

\* GET /api/v1/models: llm_service.get_available_models()
ListModels ==
    /\ models' = [listed |-> TRUE, list |-> GetAvailableModels(llm_provider)]
    /\ UNCHANGED <<now, counters, log, config, model_file, llm, init_error, last,
                   req, done, admissions>>

\* scripts/download_gguf.py: the model file appears
DownloadModel ==
    /\ ~model_file
    /\ LibraryOf(llm_provider) = "llama_cpp"
    /\ model_file' = TRUE
    /\ UNCHANGED <<now, counters, log, models, config, llm, init_error, last, req,
                   done, admissions>>

NextLLM ==
    \/ \E request \in Requests, b \in Backends : Call(request, b)
    \/ DownloadModel
    \/ ListModels

SpecLLM == InitLLM /\ [][NextLLM]_vars

\* ------------------------------------------------- claims on the admission log

\* the calls up to the i-th made by the i-th call's identity with the clock in
\* the same aligned window: the i-th call is the Rank(i)-th of its window
SameWindow(i, j) ==
    /\ log[i].id = log[j].id
    /\ log[i].t \div rate_limit_window = log[j].t \div rate_limit_window

Rank(i) == Cardinality({j \in 1..i : SameWindow(i, j)})

\* C1: for limit > 0, the k-th check of an identity within one aligned window
\* is allowed exactly when k <= limit, and an allowed one reports
\* remaining = limit - k (limit-1, limit-2, ..., 0); the (limit+1)-th and every
\* later check of that window is denied.
C1_FirstLimitAllowed ==
    rate_limit_requests > 0 =>
        \A i \in 1..Len(log) :
            /\ log[i].allowed <=> (Rank(i) <= rate_limit_requests)
            /\ log[i].allowed =>
                   log[i].info.remaining = rate_limit_requests - Rank(i)

\* a window in which an identity used its whole limit of at least 2 and was
\* then denied
C1_Witness ==
    /\ rate_limit_requests >= 2
    /\ \E i \in 1..Len(log) :
           /\ ~log[i].allowed
           /\ Rank(i) = rate_limit_requests + 1
           /\ \E j \in 1..i : SameWindow(i, j) /\ log[j].info.remaining = 0
                                /\ log[j].allowed

\* the i-th call found a stored entry whose window had ended
CrossedBoundary(i) ==
    /\ log[i].prev # NoEntry
    /\ log[i].t >= log[i].prev.window_start + rate_limit_window

\* C9 as stated: after the clock crosses a window boundary the next check of
\* the identity is allowed with remaining = limit - 1, whatever the limit.
C9_Original ==
    \A i \in 1..Len(log) :
        CrossedBoundary(i) =>
            /\ log[i].allowed
            /\ log[i].info.remaining = rate_limit_requests - 1

\* C9 amended: for limit > 0, after the clock crosses a window boundary (an
\* advance of at least window_seconds since the stored window_start) the next
\* check of the identity is allowed with remaining = limit - 1, whatever its
\* count was in the previous window.
C9_AllowedAfterRollover ==
    rate_limit_requests > 0 =>
        \A i \in 1..Len(log) :
            CrossedBoundary(i) =>
                /\ log[i].allowed
                /\ log[i].info.remaining = rate_limit_requests - 1

\* an identity that had been denied in its previous window is allowed again
C9_Witness ==
    \E i \in 1..Len(log) :
        /\ CrossedBoundary(i)
        /\ log[i].prev.count >= rate_limit_requests
        /\ \E j \in 1..(i - 1) : log[j].id = log[i].id /\ ~log[j].allowed
        /\ log[i].allowed
        /\ rate_limit_requests > 0

\* C10: every check, denied or allowed, reports as reset instant the end of
\* the aligned window its clock value lies in (a multiple of the window, after
\* the clock value, at most one window after it), and a denied check reports
\* remaining = 0.
C10_ResetIsWindowEnd ==
    \A i \in 1..Len(log) :
        LET reset_ts == FromIso(log[i].info.reset)
        IN  /\ reset_ts % rate_limit_window = 0
            /\ reset_ts - rate_limit_window <= log[i].t
            /\ log[i].t < reset_ts
            /\ ~log[i].allowed => log[i].info.remaining = 0

\* a denied and an allowed check of one window, strictly inside the window
C10_Witness ==
    \E i, j \in 1..Len(log) :
        /\ ~log[i].allowed
        /\ log[j].allowed
        /\ SameWindow(i, j)
        /\ log[i].t % rate_limit_window # 0
        /\ log[i].info.reset = log[j].info.reset
        /\ rate_limit_requests > 0


\* the checks allowed among the i-th call's identity's calls of one window
AllowedInWindow(i) ==
    Cardinality({j \in 1..Len(log) : SameWindow(i, j) /\ log[j].allowed})

\* C21: the count of the previous window is not carried over: whatever an
\* identity did before, each of its first `limit` checks in an aligned window
\* is allowed (so 2*limit admissions can fall within less than one window
\* length across a boundary), while the admissions inside one aligned window
\* never exceed the limit.
C21_BurstAtRollover ==
    \A i \in 1..Len(log) :
        /\ Rank(i) <= rate_limit_requests => log[i].allowed
        /\ AllowedInWindow(i) <= Max(0, rate_limit_requests)

\* 2*limit admissions of one identity, limit >= 2, within a span shorter than
\* the window
C21_Witness ==
    /\ rate_limit_requests >= 2
    /\ \E i, j \in 1..Len(log) :
           /\ i < j
           /\ log[j].t - log[i].t < rate_limit_window
           /\ log[j].t \div rate_limit_window # log[i].t \div rate_limit_window
           /\ Cardinality({k \in i..j : log[k].id = log[i].id /\ log[k].allowed})
                  = 2 * rate_limit_requests

\* C22: the window_start a check stores is floor(t / window) * window: a
\* multiple of the window with window_start <= t < window_start + window, and
\* two checks have the same window_start exactly when their clock values lie
\* in the same epoch-aligned interval.
C22_WindowAligned ==
    \A i \in 1..Len(log) :
        LET ws == log[i].entry.window_start
        IN  /\ ws % rate_limit_window = 0
            /\ ws <= log[i].t
            /\ log[i].t < ws + rate_limit_window
            /\ \A j \in 1..Len(log) :
                   (log[j].entry.window_start = ws)
                       <=> (log[j].t \div rate_limit_window
                               = log[i].t \div rate_limit_window)

\* two checks at different seconds inside one window, neither at its start,
\* and a third in the next window
C22_Witness ==
    \E i, j, k \in 1..Len(log) :
        /\ log[i].t # log[j].t
        /\ log[i].t % rate_limit_window # 0
        /\ log[j].t % rate_limit_window # 0
        /\ log[i].entry.window_start = log[j].entry.window_start
        /\ log[k].entry.window_start
               = log[i].entry.window_start + rate_limit_window

\* C23: for limit > 0, every stored count is between 0 and the limit; an
\* allowed check leaves a count one above the identity's count in the present
\* window (0 where the stored entry was missing or of another window) and
\* reports remaining = limit - count; a denied check leaves the stored
\* (window_start, count) pair as it was.
C23_CountBounded ==
    rate_limit_requests > 0 =>
        /\ \A id \in Identifiers :
               counters[id] # NoEntry =>
                   /\ 0 <= counters[id].count
                   /\ counters[id].count <= rate_limit_requests
        /\ \A i \in 1..Len(log) :
               LET before == IF \/ log[i].prev = NoEntry
                                \/ log[i].prev.window_start
                                       # log[i].entry.window_start
                             THEN 0 ELSE log[i].prev.count
               IN  IF log[i].allowed
                   THEN /\ log[i].entry.count = before + 1
                        /\ log[i].info.remaining
                               = rate_limit_requests - log[i].entry.count
                   ELSE log[i].entry = log[i].prev

\* one identity went from count 0 to the limit (at least 2) and was then denied
C23_Witness ==
    /\ rate_limit_requests >= 2
    /\ \E i, j \in 1..Len(log) :
           /\ log[i].allowed
           /\ log[i].entry.count = rate_limit_requests
           /\ log[i].info.remaining = 0
           /\ j > i
           /\ ~log[j].allowed
           /\ log[j].entry = log[i].entry

\* the j-th call is a later check of the i-th call's identity, made at or
\* after the reset instant the i-th call reported
AfterReset(i, j) ==
    /\ j > i
    /\ log[j].id = log[i].id
    /\ log[j].t >= FromIso(log[i].info.reset)

\* C25 as stated: a denial's reset instant is after the check and at most one
\* window after it, and for limit > 0 every check of the identity made at or
\* after that instant is allowed.
C25_Original ==
    \A i \in 1..Len(log) :
        ~log[i].allowed =>
            /\ FromIso(log[i].info.reset) > log[i].t
            /\ FromIso(log[i].info.reset) <= log[i].t + rate_limit_window
            /\ rate_limit_requests > 0 =>
                   \A j \in 1..Len(log) : AfterReset(i, j) => log[j].allowed

\* C25 amended: a denial's reset instant is after the check and at most one
\* window after it, and for limit > 0 the first check of the identity made at
\* or after that instant is allowed.
C25_FirstAfterResetAllowed ==
    \A i \in 1..Len(log) :
        ~log[i].allowed =>
            /\ FromIso(log[i].info.reset) > log[i].t
            /\ FromIso(log[i].info.reset) <= log[i].t + rate_limit_window
            /\ rate_limit_requests > 0 =>
                   \A j \in 1..Len(log) :
                       (/\ AfterReset(i, j)
                        /\ \A k \in 1..(j - 1) : ~AfterReset(i, k))
                           => log[j].allowed

\* an identity denied inside a window came back exactly at the reported
\* reset instant and was allowed
C25_Witness ==
    /\ rate_limit_requests > 0
    /\ \E i, j \in 1..Len(log) :
           /\ ~log[i].allowed
           /\ AfterReset(i, j)
           /\ log[j].t = FromIso(log[i].info.reset)
           /\ log[j].allowed

\* what another identity can have stored when a check is made: nothing, an
\* entry of an earlier window, or an entry of the present window with any
\* count up to the limit, the used-up one included
OtherEntries ==
    {NoEntry}
        \cup [window_start : {GetWindowStart(now, rate_limit_window) - rate_limit_window,
                              GetWindowStart(now, rate_limit_window)},
              count : {0, Max(0, rate_limit_requests)}]

\* C27: a check of one identity leaves the stored entry of every other
\* identity as it was, and its outcome and the entry it stores are the same
\* whether the other identities have nothing stored or have used up their
\* limit; a check is denied only when its own identity already has `limit`
\* allowed checks in the present window.
C27_OtherIdentitiesUntouched ==
    [][Len(log') = Len(log) + 1 =>
          LET c == log'[Len(log')]
              others == Identifiers \ {c.id}
          IN  /\ \A id \in others : counters'[id] = counters[id]
              /\ \A e \in OtherEntries :
                     LET cs == [id \in Identifiers |->
                                   IF id = c.id THEN counters[id] ELSE e]
                     IN  LET res == CheckRateLimit(cs, now, c.id,
                                                   rate_limit_requests,
                                                   rate_limit_window)
                         IN  /\ res.allowed = c.allowed
                             /\ res.info = c.info
                             /\ res.counters[c.id] = c.entry
                             /\ \A id \in others : res.counters[id] = cs[id]
              /\ ~c.allowed =>
                     Cardinality({j \in 1..Len(log) :
                                     /\ log[j].id = c.id
                                     /\ log[j].t \div rate_limit_window
                                            = now \div rate_limit_window
                                     /\ log[j].allowed})
                         >= rate_limit_requests]_vars

\* one identity has used up its limit and was denied; a check of the other
\* identity in the same window is then allowed as its first, and the entry of
\* the exhausted identity is still the one its denial left
C27_Witness ==
    /\ rate_limit_requests > 0
    /\ \E i, j \in 1..Len(log) :
           /\ i < j
           /\ ~log[i].allowed
           /\ log[j].id # log[i].id
           /\ log[j].t \div rate_limit_window = log[i].t \div rate_limit_window
           /\ log[j].prev = NoEntry
           /\ log[j].allowed
           /\ log[j].info.remaining = rate_limit_requests - 1
           /\ counters[log[i].id] = log[i].entry
           /\ counters[log[i].id].count = rate_limit_requests

\* C29: with a limit of 0 or less every check of every identity is denied
\* with remaining = 0 and leaves a stored count of 0, in every window: no
\* check is ever allowed and no stored count is ever above 0.
C29_NonPositiveLimitDeniesAll ==
    rate_limit_requests <= 0 =>
        /\ \A i \in 1..Len(log) :
               /\ ~log[i].allowed
               /\ log[i].info.remaining = 0
               /\ log[i].info.limit = rate_limit_requests
               /\ log[i].entry.count = 0
        /\ \A id \in Identifiers :
               counters[id] # NoEntry => counters[id].count = 0

\* with a negative limit both identities were denied, one of them again
\* after its window had rolled over
C29_Witness ==
    /\ rate_limit_requests < 0
    /\ \E i, j, k \in 1..Len(log) :
           /\ i < j
           /\ log[j].id = log[i].id
           /\ log[k].id # log[i].id
           /\ log[j].prev = log[i].entry
           /\ log[j].entry.window_start
                  = log[i].entry.window_start + rate_limit_window
           /\ ~log[i].allowed /\ ~log[j].allowed /\ ~log[k].allowed
           /\ counters[log[i].id].count = 0

\* the checks made with window w while the clock was in the aligned window
\* of size w that starts at ws, and allowed
AdmittedIn(w, ws) ==
    {i \in 1..Len(log) : /\ log[i].allowed
                         /\ log[i].info.window = w
                         /\ (log[i].t \div w) * w = ws}

\* C28: an identity has one stored entry, which every check of it reads and
\* replaces whatever window the check is made with: a check finds the entry
\* the previous check left, and where that entry's window_start differs from
\* its own (another window size, or a clock in another aligned window, later
\* or earlier) it counts from 0 and is allowed; only an equal window_start
\* continues the stored count.
C28_SharedEntryResets ==
    \A i \in 1..Len(log) :
        LET w == log[i].info.window
            ws == (log[i].t \div w) * w
            differs == log[i].prev = NoEntry \/ log[i].prev.window_start # ws
            before == IF differs THEN 0 ELSE log[i].prev.count
        IN  /\ log[i].id = Identifier(1)
            /\ i > 1 => log[i].prev = log[i - 1].entry
            /\ i = Len(log) => counters[log[i].id] = log[i].entry
            /\ log[i].entry.window_start = ws
            /\ log[i].allowed <=> before < rate_limit_requests
            /\ log[i].allowed => log[i].entry.count = before + 1
            /\ ~log[i].allowed => log[i].entry.count = before

\* more checks than the limit were allowed with the largest window inside
\* one aligned window of that size, with a clock that never went back between
\* them and a check with another window size in between; and a check made
\* after the clock was set back found an entry of a later window and was
\* allowed as the first of its window
C28_Witness ==
    /\ \E ws \in 0..MaxClock, a, b, c \in 1..Len(log) :
           /\ Cardinality(AdmittedIn(rate_limit_window, ws)) > rate_limit_requests
           /\ a \in AdmittedIn(rate_limit_window, ws)
           /\ c \in AdmittedIn(rate_limit_window, ws)
           /\ a < b /\ b < c
           /\ log[b].info.window # rate_limit_window
           /\ log[a].t <= log[b].t /\ log[b].t <= log[c].t
           /\ log[c].prev.window_start # ws
           /\ log[c].entry.count = 1
    /\ \E d \in 1..Len(log) :
           /\ log[d].prev # NoEntry
           /\ log[d].prev.window_start > log[d].t
           /\ log[d].allowed
           /\ log[d].entry.count = 1

\* ------------------------------------------------------ claims on the service

\* C2: whatever the interleaving of concurrent generate requests, the number
\* of requests of one identity admitted with the clock in one aligned window
\* never exceeds the limit.
C2_AdmittedWithinLimit ==
    \A u \in Users : admissions[u] <= Max(0, rate_limit_requests)

\* two requests of one identity are in progress at once, one inside the
\* handler and one waiting for the event loop, with the window's limit used up
C2_Witness ==
    \E r1, r2 \in Reqs :
        /\ r1 # r2
        /\ req[r1].pc \in {"checked", "admitted", "generated", "tracked"}
        /\ req[r2].pc = "authed"
        /\ req[r1].user = req[r2].user
        /\ rate_limit_requests >= 1
        /\ admissions[req[r1].user] = rate_limit_requests

\* C3: a generate call answered 200 has produced exactly one Usage row, and a
\* call rejected by admission (429) has produced none.
C3_OneRecordPerSuccess ==
    /\ done.status = "ok200" => Len(done.rows) = 1
    /\ done.status = "r429" => Len(done.rows) = 0

\* a successful call with its one row, the row of that call's result
C3_Witness ==
    /\ done.status = "ok200"
    /\ done.rows = <<[user_id |-> 1, total_tokens |-> done.resp.total_tokens,
                      total_cost |-> done.resp.cost, status_code |-> 200]>>

\* C4: when generate_text has returned and the usage write (track_usage or
\* the commit after it) raises, the caller still gets the 200 response.
C4_SinkFailureKeepsResponse ==
    (done.generated /\ done.sink = "failed") => done.status = "ok200"

\* C11: while one caller's adapter invocation is in flight (its handler is at
\* the generate_text call), the admission check of a request of another
\* identity can be taken: it is not delayed by the generation in flight.
C11_AdmissionNotDelayed ==
    \A r1, r2 \in Reqs :
        (/\ mode = "main"
         /\ req[r1].pc = "admitted"
         /\ req[r2].pc = "authed"
         /\ req[r1].user # req[r2].user)
            => ENABLED Enforce(r2)

\* C12: a Usage row is persisted only for a call whose result is delivered: no
\* call answered 500 has committed a Usage row, and a request holds a
\* GenerationResponse only after its adapter call has returned.
C12_RecordOnlyWithDeliveredResult ==
    /\ done.status = "err500" => Len(done.rows) = 0
    /\ \A r \in Reqs :
           req[r].resp # NoResp => req[r].pc \in {"generated", "tracked"}

\* C16: every step in which a handler's admission check finds its identity at
\* or over the limit answers 429 (not 500), with the decision's limit,
\* remaining = 0 and, as reset, the end of the present aligned window.
C16_RejectionIs429 ==
    [][\A r \in Reqs :
          LET entry == CurrentEntry(counters[Identifier(req[r].user)],
                                    GetWindowStart(now, rate_limit_window))
          IN  (/\ req[r].pc = "authed"
               /\ req'[r] # req[r]
               /\ OverLimit(entry.count, rate_limit_requests))
                  => /\ done'.status = "r429"
                     /\ done'.info.limit = rate_limit_requests
                     /\ done'.info.remaining = 0
                     /\ FromIso(done'.info.reset) =
                            GetWindowStart(now, rate_limit_window)
                                + rate_limit_window]_vars

\* a request rejected after its identity had used a limit of at least 1
C16_Witness ==
    /\ done.status = "r429"
    /\ rate_limit_requests >= 1
    /\ done.info.limit = rate_limit_requests
    /\ done.info.remaining = 0
    /\ FromIso(done.info.reset) > now
    /\ \E u \in Users : admissions[u] = rate_limit_requests

\* C17: whatever error the adapter raised, the response to the caller is the
\* same value: status 500, detail "Generation failed", no result; the error's
\* text is in the server's log only.
C17_GenericFailure ==
    (done.status = "err500" /\ ~done.generated) =>
        /\ done.detail = "Generation failed"
        /\ done.resp = NoResp
        /\ done.info = NoInfo
        /\ done.logged \in BackendErrors
        /\ done.detail # done.logged

\* a call failed by a malformed backend response, answered with the generic
\* failure
C17_Witness ==
    /\ done.status = "err500"
    /\ ~done.generated
    /\ done.logged = "bad response"
    /\ done.detail = "Generation failed"

\* C19: a request to /api/v1/generate that omits model is served with the
\* hosted provider's default model: the 200 names gpt-3.5-turbo as the model.
C19_OmittedModelIsDefault ==
    (/\ done.status = "ok200"
     /\ done.model = ""
     /\ done.resp.provider = "openai")
        => done.resp.model_used = "gpt-3.5-turbo"

\* C24: every request that passed admission stays counted, whatever became
\* of it: once its check has returned, the stored count of an identity's
\* present window equals the number of that identity's requests admitted in
\* the window, those answered 500 included; no step lowers it.
C24_FailedCallsCount ==
    \A u \in Users :
        LET entry == counters[Identifier(u)]
        IN  (/\ entry # NoEntry
             /\ entry.window_start = GetWindowStart(now, rate_limit_window)
             /\ \A r \in Reqs : ~(req[r].pc = "checked" /\ req[r].user = u))
                => entry.count = admissions[u]

\* the only request admitted so far was answered 500 after its adapter call
\* failed, and it has used up its identity's limit of 1: a second request of
\* that identity is waiting and will be rejected
C24_Witness ==
    /\ rate_limit_requests = 1
    /\ done.status = "err500"
    /\ ~done.generated
    /\ \E u \in Users :
           /\ counters[Identifier(u)].count = 1
           /\ counters[Identifier(u)].window_start
                  = GetWindowStart(now, rate_limit_window)
           /\ admissions[u] = 1
           /\ \A v \in Users \ {u} : counters[Identifier(v)] = NoEntry
           /\ \E r \in Reqs : req[r].pc = "authed" /\ req[r].user = u
           /\ \A r \in Reqs : req[r].pc \in {"new", "authed"}

\* the user an API key was issued to
KeyOwner(key) == IF key \in {"k1a", "k1b"} THEN 1 ELSE 2

\* C26: authentication comes before admission.  A step that answers 401
\* changes no counter, calls no adapter and leaves every request and Usage row
\* as it was; only a key of an active user gets past get_current_user, and
\* that step changes no counter either; the admission check that follows
\* touches only the counter of the key's owner, so the keys of one user share
\* one counter; and no step but an admission check changes a counter.
C26_AuthBeforeAdmission ==
    [][/\ (done' # done /\ done'.status = "r401") =>
              /\ counters' = counters
              /\ admissions' = admissions
              /\ llm' = llm
              /\ req' = req
              /\ done'.rows = <<>>
       /\ \A r \in Reqs :
              /\ (req[r].pc = "new" /\ req'[r].pc = "authed") =>
                     /\ req'[r].key \in {"k1a", "k1b", "k2"}
                     /\ req'[r].user = KeyOwner(req'[r].key)
                     /\ counters' = counters
              /\ (req[r].pc = "authed" /\ req'[r].pc # "authed") =>
                     \A id \in Identifiers \ {Identifier(KeyOwner(req[r].key))} :
                         counters'[id] = counters[id]
       /\ counters' # counters =>
              \E r \in Reqs : /\ req[r].pc \in {"authed", "checked"}
                               /\ req'[r].pc # req[r].pc]_vars

\* two requests made with the two keys of user 1 wait for the one counter of
\* user 1, whose limit of 1 is used up, after another request was answered 401
C26_Witness ==
    /\ done.status = "r401"
    /\ rate_limit_requests = 1
    /\ \E r1, r2 \in Reqs :
           /\ req[r1].pc = "authed" /\ req[r1].key = "k1a"
           /\ req[r2].pc = "authed" /\ req[r2].key = "k1b"
           /\ req[r1].user = req[r2].user
    /\ counters[Identifier(1)].count = 1
    /\ counters[Identifier(2)] = NoEntry

\* ------------------------------------------------- claims on the LLM service

\* the provider's library, and its model file or key, are there
PrerequisiteMet(file) ==
    /\ LibraryOf(llm_provider) \in installed
    /\ LibraryOf(llm_provider) = "llama_cpp" => file
    /\ Lower(llm_provider) \in {"openai", "anthropic"} => api_key

C6_TotalIsSum ==
    (last.called /\ ~last.raised) =>
        last.resp.total_tokens = last.resp.input_tokens + last.resp.output_tokens

\* C7 as stated: cost = (total_tokens / 1000) * price_per_1k_tokens.
C7_Original ==
    (last.called /\ ~last.raised) =>
        last.resp.cost = last.resp.total_tokens * price_per_1k_tokens

\* C7 amended: the cost of every result is 0, for every token count and every
\* configured rate; it is (total_tokens / 1000) * rate only where that is 0.
C7_CostIgnoresRate ==
    (last.called /\ ~last.raised) =>
        /\ last.resp.cost = 0
        /\ (last.resp.cost = last.resp.total_tokens * price_per_1k_tokens)
               <=> (last.resp.total_tokens * price_per_1k_tokens = 0)

\* a result of cost 0 under a non-zero rate
C7_Witness ==
    /\ last.called
    /\ ~last.raised
    /\ price_per_1k_tokens # 0
    /\ last.resp.total_tokens > 0
    /\ last.resp.cost = 0

\* C8: with rate 0 every successful generate has cost 0, and no cost is
\* negative.
C8_ZeroRateZeroCost ==
    (last.called /\ ~last.raised) =>
        /\ last.resp.cost >= 0
        /\ price_per_1k_tokens = 0 => last.resp.cost = 0

\* the stub's case: input 1, output 1, total 2, cost 0 at rate 0
C8_Witness ==
    /\ last.called
    /\ ~last.raised
    /\ price_per_1k_tokens = 0
    /\ last.resp.input_tokens = 1
    /\ last.resp.output_tokens = 1
    /\ last.resp.total_tokens = 2
    /\ last.resp.cost = 0

\* C13: a provider name that, lowered, is none of the known names is not an
\* error: initialization logs the warning and loads the llama.cpp model (it
\* fails only where the llama.cpp prerequisites are unmet), and every generate
\* call goes to the llama.cpp adapter, returning with provider "llamacpp"
\* whenever the prerequisites are met and the backend returns.
C13_UnknownFallsBack ==
    Lower(llm_provider) \notin KnownProviders =>
        /\ init_warning
        /\ ~init_error => llm.llamacpp_model
        /\ last.called => last.adapter = "llamacpp"
        /\ (last.called /\ last.backend_ok /\ PrerequisiteMet(last.file)) =>
               /\ ~last.raised
               /\ last.resp.provider = "llamacpp"

\* the service was started with an unknown name and has answered a call
\* through the llama.cpp adapter
C13_Witness ==
    /\ Lower(llm_provider) \notin KnownProviders
    /\ init_warning
    /\ ~init_error
    /\ last.called
    /\ ~last.raised
    /\ last.adapter = "llamacpp"
    /\ last.resp.provider = "llamacpp"

\* C14: within one generate call the backend completion is invoked at most
\* once, and when it fails the call raises: a failed completion is not retried.
C14_NoRetry ==
    last.called =>
        /\ last.invoked <= 1
        /\ ~last.backend_ok => last.raised

\* a call whose one backend completion failed, and which raised
C14_Witness ==
    /\ last.called
    /\ ~last.backend_ok
    /\ last.invoked = 1
    /\ last.raised
    /\ last.resp = NoResp

\* C15: over any sequence of generate calls (the calls are coroutines that
\* never suspend, so every interleaving of them is a sequence of whole calls),
\* a backend object is constructed at most once; a call that finds the
\* llama.cpp model cached leaves it in place and answers with it.
C15_ConstructedOnce ==
    /\ llm.constructed <= 1
    /\ llm.llamacpp_model => llm.constructed = 1
    /\ (last.called /\ last.cached) => llm.llamacpp_model

\* first use after a failed start: the model file arrived later, one call
\* loaded the model, and a later call found it cached and returned
C15_Witness ==
    /\ init_error
    /\ llm.llamacpp_model
    /\ llm.constructed = 1
    /\ last.called
    /\ last.cached
    /\ ~last.raised

\* C18: under every configured provider name, an unknown one included,
\* get_available_models lists exactly the descriptors of the provider that
\* generate_text dispatches to: one descriptor, of that provider.
C18_ListsDispatchedProvider ==
    models.listed =>
        /\ Len(models.list) = 1
        /\ \A i \in 1..Len(models.list) :
               models.list[i].provider = Dispatch(llm_provider)

\* the list an optional list of stop sequences stands for: none for None
StopList(x) == IF x = {} THEN <<>> ELSE CHOOSE s \in x : TRUE

\* C20: under every adapter, the backend call is given the request's max
\* tokens, temperature and stop sequences as they are (None and the empty list
\* both being no stop sequence), and its top_p unless the adapter passes none.
C20_ParametersPassThrough ==
    (last.called /\ last.invoked >= 1) =>
        /\ last.sent.max_tokens = last.request.max_tokens
        /\ last.sent.temperature = last.request.temperature
        /\ "top_p" \in DOMAIN last.sent =>
               last.sent.top_p = last.request.top_p
        /\ "stop" \in DOMAIN last.sent
        /\ StopList(last.sent.stop) = StopList(last.request.stop_sequences)

=============================================================================
